---- MODULE Spec2Model ----
(***************************************************************************)
(* Model of pyzdc:                                                         *)
(*   - rename_db_columns  (src/transform/transform_columns.py)             *)
(*   - get_years, get_data_from_table  (dq_sus/get_info/get_info.py)       *)
(* Three specifications share the module: Spec (column renaming),          *)
(* SpecYears (get_years) and SpecData (get_data_from_table).               *)
(***************************************************************************)
EXTENDS Integers, Sequences, FiniteSets, TLC

VARIABLES
    \* ---- rename_db_columns ----
    pc,                \* position inside rename_db_columns
    db_exists,         \* db_path.exists()
    json_file,         \* the static mapping file: sequence of <<key, target>>
    committed,         \* column names of the table as stored in the database file
    working,           \* column names as seen by the open transaction
    conn,              \* "unbound" | "open" | "closed"
    txn,               \* "none" | "active"
    column_mapping,    \* result of load_json
    loaded,            \* TRUE once load_json has returned
    existing_columns,  \* dict col -> unidecode(col), in DESCRIBE order
    unmapped_columns,  \* list of unmapped mapping keys
    i,                 \* loop index of the two for loops
    error,             \* exception caught by "except Exception as e"
    raised,            \* exception that leaves the function
    reported,          \* <<"warning", names>> | <<"info">> | <<>>
    obs,               \* observations of the current invocation (history)
    prior_success,     \* an earlier invocation returned normally
    calls,             \* number of invocations started
    \* ---- get_years ----
    pcY, disease, files, years, resultY,
    \* ---- get_data_from_table ----
    pcD, loaded_data, data, verbose, logging_disabled, resultD

renameVars == <<pc, db_exists, json_file, committed, working, conn, txn,
                column_mapping, loaded, existing_columns, unmapped_columns, i,
                error, raised, reported, obs, prior_success, calls>>
yearsVars  == <<pcY, disease, files, years, resultY>>
dataVars   == <<pcD, loaded_data, data, verbose, logging_disabled, resultD>>
vars       == <<renameVars, yearsVars, dataVars>>

\* ------------------------------------------------------------------------
\* Bounds
\* ------------------------------------------------------------------------
MaxCols  == 2      \* columns of the table
MaxMap   == 3      \* entries of the mapping file
MaxCalls == 2      \* successive invocations of rename_db_columns

\* ------------------------------------------------------------------------
\* Helpers
\* ------------------------------------------------------------------------
Range(s) == {s[k] : k \in 1..Len(s)}

SeqsUpTo(S, n) == UNION {[1..k -> S] : k \in 0..n}

Injective(s) == \A a, b \in 1..Len(s) : a # b => s[a] # s[b]

\* Column identifiers of the model.  "a^" stands for an accented "a" and
\* "b^" for an accented "b".
Names == {"a", "b", "a^", "b^"}

\* Target names the mapping file may give.
Targets == {"a", "b", "a^"}

\* unidecode.unidecode on the identifiers of the model: strips the accent;
\* plain identifiers are left as they are.
Unidecode(name) ==
    CASE name = "a^" -> "a"
      [] name = "b^" -> "b"
      [] OTHER -> name

\* A JSON object has distinct keys; dict(...) keeps the file's order.
Mappings == {m \in SeqsUpTo(Names \X Targets, MaxMap) :
                \A a, b \in 1..Len(m) : a # b => m[a][1] # m[b][1]}

\* A table has at least one column, and distinct column names.
Schemas == {s \in SeqsUpTo(Names, MaxCols) : Len(s) > 0 /\ Injective(s)}

\* ALTER TABLE t RENAME COLUMN "old" TO "new": the engine accepts it when a
\* column is named old and no other column is named new (renaming a column
\* to its own name leaves the table as it is).
CanRename(schema, old, new) ==
    \E k \in 1..Len(schema) :
        /\ schema[k] = old
        /\ \A l \in 1..Len(schema) : l # k => schema[l] # new

RenameColumn(schema, old, new) ==
    [k \in 1..Len(schema) |-> IF schema[k] = old THEN new ELSE schema[k]]

NoObs == [conns |-> 0, begins |-> 0, closes |-> 0, accent |-> 0, mapped |-> 0,
          outside |-> 0, schema0 |-> <<>>, failed_at |-> <<>>,
          prev_accent |-> 0]

\* ------------------------------------------------------------------------
\* rename_db_columns
\* ------------------------------------------------------------------------
\* The part of the state that belongs to one invocation.
Locals(schema) ==
    /\ conn = "unbound" /\ txn = "none"
    /\ column_mapping = <<>> /\ loaded = FALSE
    /\ existing_columns = <<>> /\ unmapped_columns = <<>>
    /\ i = 0 /\ error = "none" /\ raised = "none" /\ reported = <<>>
    /\ obs = [NoObs EXCEPT !.schema0 = schema]

InitYearsIdle ==
    /\ pcY = "idle" /\ disease = <<>> /\ files = <<>> /\ years = <<>>
    /\ resultY = [kind |-> "none", text |-> "", names |-> <<>>, years |-> <<>>]

InitDataIdle ==
    /\ pcD = "idle" /\ loaded_data = <<>> /\ data = [cols |-> {}, idx |-> {}]
    /\ verbose = FALSE /\ logging_disabled = FALSE /\ resultD = <<>>

InitRename ==
    /\ pc = "start"
    /\ db_exists \in BOOLEAN
    /\ json_file \in Mappings
    /\ committed \in (IF db_exists THEN Schemas ELSE {<<>>})
    /\ working = committed
    /\ Locals(committed)
    /\ prior_success = FALSE
    /\ calls = 1

Init == InitRename /\ InitYearsIdle /\ InitDataIdle

\* Variant of CheckDb without the existence test.
CheckDbSkipped ==
    /\ pc = "start"
    /\ pc' = "load_json"
    /\ UNCHANGED <<db_exists, json_file, committed, working, conn, txn,
                   column_mapping, loaded, existing_columns, unmapped_columns,
                   i, error, raised, reported, obs, prior_success, calls>>
    /\ UNCHANGED <<yearsVars, dataVars>>

\* if not db_path.exists(): raise FileNotFoundError
CheckDb ==
    /\ pc = "start"
    /\ IF db_exists
         THEN pc' = "load_json" /\ raised' = raised
         ELSE pc' = "raised" /\ raised' = "FileNotFoundError"
    /\ UNCHANGED <<db_exists, json_file, committed, working, conn, txn,
                   column_mapping, loaded, existing_columns, unmapped_columns,
                   i, error, reported, obs, prior_success, calls>>
    /\ UNCHANGED <<yearsVars, dataVars>>

\* column_mapping = load_json(language): outside the try block, so a failure
\* of the loader leaves the function directly.
load_json ==
    /\ pc = "load_json"
    /\ \/ /\ column_mapping' = json_file
          /\ loaded' = TRUE
          /\ pc' = "connect"
          /\ raised' = raised
       \/ /\ \E e \in {"ValueError", "FileNotFoundError", "JSONDecodeError"} :
                raised' = e
          /\ pc' = "raised"
          /\ UNCHANGED <<column_mapping, loaded>>
    /\ UNCHANGED <<db_exists, json_file, committed, working, conn, txn,
                   existing_columns, unmapped_columns, i, error, reported,
                   obs, prior_success, calls>>
    /\ UNCHANGED <<yearsVars, dataVars>>

\* An exception inside the try block: remember it and enter the handler.
Fail(e, where) ==
    /\ error' = e
    /\ pc' = "except"
    /\ obs' = [obs EXCEPT !.failed_at = where]

\* conn = duckdb.connect(str(db_path))
Connect ==
    /\ pc = "connect"
    /\ \/ /\ conn' = "open"
          /\ obs' = [obs EXCEPT !.conns = @ + 1]
          /\ pc' = "begin"
          /\ error' = error
       \/ /\ Fail("ConnectError", <<"connect">>)
          /\ conn' = conn
    /\ UNCHANGED <<db_exists, json_file, committed, working, txn,
                   column_mapping, loaded, existing_columns, unmapped_columns,
                   i, raised, reported, prior_success, calls>>
    /\ UNCHANGED <<yearsVars, dataVars>>

\* conn.begin()
Begin ==
    /\ pc = "begin"
    /\ \/ /\ txn' = "active"
          /\ obs' = [obs EXCEPT !.begins = @ + 1]
          /\ pc' = "describe"
          /\ error' = error
       \/ /\ Fail("BeginError", <<"begin">>)
          /\ txn' = txn
    /\ UNCHANGED <<db_exists, json_file, committed, working, conn,
                   column_mapping, loaded, existing_columns, unmapped_columns,
                   i, raised, reported, prior_success, calls>>
    /\ UNCHANGED <<yearsVars, dataVars>>

\* existing_columns = {col[0]: unidecode(col[0]) for col in DESCRIBE table}
\* unmapped_columns = []
AfterAccent == IF Len(column_mapping) = 0 THEN "commit" ELSE "mapping"

Describe ==
    /\ pc = "describe"
    /\ \/ /\ Len(working) > 0
          /\ existing_columns' =
                [k \in 1..Len(working) |-> <<working[k], Unidecode(working[k])>>]
          /\ unmapped_columns' = <<>>
          /\ i' = 1
          /\ pc' = "accent"
          /\ UNCHANGED <<error, obs>>
       \/ /\ Fail("DescribeError", <<"describe">>)
          /\ UNCHANGED <<existing_columns, unmapped_columns, i>>
    /\ UNCHANGED <<db_exists, json_file, committed, working, conn, txn,
                   column_mapping, loaded, raised, reported, prior_success,
                   calls>>
    /\ UNCHANGED <<yearsVars, dataVars>>

\* for col, normalized_col in existing_columns.items(): one iteration
AccentStep ==
    /\ pc = "accent"
    /\ i <= Len(existing_columns)
    /\ LET col == existing_columns[i][1]
           normalized_col == existing_columns[i][2]
           last == i = Len(existing_columns)
       IN  IF col # normalized_col
             THEN IF CanRename(working, col, normalized_col)
                    THEN /\ working' = RenameColumn(working, col, normalized_col)
                         /\ obs' = [obs EXCEPT !.accent = @ + 1,
                                      !.outside = @ + (IF txn = "active" THEN 0 ELSE 1)]
                         /\ error' = error
                         /\ pc' = IF last THEN AfterAccent ELSE "accent"
                         /\ i' = IF last THEN 1 ELSE i + 1
                    ELSE /\ Fail("RenameError", <<"accent", i>>)
                         /\ UNCHANGED <<working, i>>
             ELSE /\ pc' = IF last THEN AfterAccent ELSE "accent"
                  /\ i' = IF last THEN 1 ELSE i + 1
                  /\ UNCHANGED <<working, obs, error>>
    /\ UNCHANGED <<db_exists, json_file, committed, conn, txn, column_mapping,
                   loaded, existing_columns, unmapped_columns, raised,
                   reported, prior_success, calls>>
    /\ UNCHANGED <<yearsVars, dataVars>>

\* Variant of InExisting without the test: every entry is taken to match.
InExistingAlways(normalized_old_name, existing) == TRUE

\* Variant of InExisting that looks the name up among the raw column names
\* (the keys of existing_columns) instead of the normalized ones.
InExistingKeys(normalized_old_name, existing) ==
    \E k \in 1..Len(existing) : existing[k][1] = normalized_old_name

\* normalized_old_name in existing_columns.values()
InExisting(normalized_old_name, existing) ==
    \E k \in 1..Len(existing) : existing[k][2] = normalized_old_name

\* for old_name, new_name in column_mapping.items(): one iteration
MapStep ==
    /\ pc = "mapping"
    /\ i <= Len(column_mapping)
    /\ LET old_name == column_mapping[i][1]
           new_name == column_mapping[i][2]
           normalized_old_name == Unidecode(old_name)
           last == i = Len(column_mapping)
       IN  IF InExisting(normalized_old_name, existing_columns)
             THEN IF CanRename(working, normalized_old_name, new_name)
                    THEN /\ working' = RenameColumn(working, normalized_old_name, new_name)
                         /\ obs' = [obs EXCEPT !.mapped = @ + 1,
                                      !.outside = @ + (IF txn = "active" THEN 0 ELSE 1)]
                         /\ error' = error
                         /\ pc' = IF last THEN "commit" ELSE "mapping"
                         /\ i' = IF last THEN i ELSE i + 1
                         /\ unmapped_columns' = unmapped_columns
                    ELSE /\ Fail("RenameError", <<"mapping", i>>)
                         /\ UNCHANGED <<working, i, unmapped_columns>>
             ELSE /\ unmapped_columns' = Append(unmapped_columns, old_name)
                  /\ pc' = IF last THEN "commit" ELSE "mapping"
                  /\ i' = IF last THEN i ELSE i + 1
                  /\ UNCHANGED <<working, obs, error>>
    /\ UNCHANGED <<db_exists, json_file, committed, conn, txn, column_mapping,
                   loaded, existing_columns, raised, reported, prior_success,
                   calls>>
    /\ UNCHANGED <<yearsVars, dataVars>>

\* Variant of Commit that ends the transaction without storing its changes.
CommitNotStored ==
    /\ pc = "commit"
    /\ txn' = "none"
    /\ pc' = "close"
    /\ UNCHANGED <<committed, working, error, obs>>
    /\ UNCHANGED <<db_exists, json_file, conn, column_mapping, loaded,
                   existing_columns, unmapped_columns, i, raised, reported,
                   prior_success, calls>>
    /\ UNCHANGED <<yearsVars, dataVars>>

\* conn.commit().  A commit that fails discards the transaction's changes;
\* whether the engine still counts the transaction as active is up to it.
Commit ==
    /\ pc = "commit"
    /\ \/ /\ committed' = working
          /\ txn' = "none"
          /\ pc' = "close"
          /\ UNCHANGED <<working, error, obs>>
       \/ /\ Fail("CommitError", <<"commit">>)
          /\ txn' \in {"active", "none"}
          /\ working' = committed
          /\ committed' = committed
    /\ UNCHANGED <<db_exists, json_file, conn, column_mapping, loaded,
                   existing_columns, unmapped_columns, i, raised, reported,
                   prior_success, calls>>
    /\ UNCHANGED <<yearsVars, dataVars>>

\* conn.close()
Close ==
    /\ pc = "close"
    /\ \/ /\ conn' = "closed"
          /\ obs' = [obs EXCEPT !.closes = @ + 1]
          /\ pc' = "report"
          /\ error' = error
       \/ /\ Fail("CloseError", <<"close">>)
          /\ conn' = conn
    /\ UNCHANGED <<db_exists, json_file, committed, working, txn,
                   column_mapping, loaded, existing_columns, unmapped_columns,
                   i, raised, reported, prior_success, calls>>
    /\ UNCHANGED <<yearsVars, dataVars>>

\* if unmapped_columns: logging.warning(...) else: logging.info(...); return
Report ==
    /\ pc = "report"
    /\ reported' = IF unmapped_columns # <<>>
                     THEN <<"warning", unmapped_columns>>
                     ELSE <<"info">>
    /\ pc' = "done"
    /\ UNCHANGED <<db_exists, json_file, committed, working, conn, txn,
                   column_mapping, loaded, existing_columns, unmapped_columns,
                   i, error, raised, obs, prior_success, calls>>
    /\ UNCHANGED <<yearsVars, dataVars>>

\* except Exception as e: logging.error(...); if conn: conn.rollback(); raise
\*  - conn is unbound when duckdb.connect itself raised: "if conn" raises
\*    UnboundLocalError, which replaces e;
\*  - rollback without an active transaction raises a transaction error,
\*    which replaces e;
\*  - otherwise the transaction's changes are undone and e is re-raised.
Except ==
    /\ pc = "except"
    /\ IF conn = "unbound"
         THEN /\ raised' = "UnboundLocalError"
              /\ UNCHANGED <<working, txn>>
         ELSE IF txn = "active"
                THEN /\ working' = committed
                     /\ txn' = "none"
                     /\ raised' = error
                ELSE /\ raised' = "TransactionError"
                     /\ UNCHANGED <<working, txn>>
    /\ pc' = "raised"
    /\ UNCHANGED <<db_exists, json_file, committed, conn, column_mapping,
                   loaded, existing_columns, unmapped_columns, i, error,
                   reported, obs, prior_success, calls>>
    /\ UNCHANGED <<yearsVars, dataVars>>

\* The caller invokes rename_db_columns again on the same database file.
\* A connection the previous invocation left open is dropped with its frame,
\* and an uncommitted transaction on it is discarded.
Invoke ==
    /\ pc \in {"done", "raised"}
    /\ calls < MaxCalls
    /\ calls' = calls + 1
    /\ pc' = "start"
    /\ working' = committed
    /\ conn' = "unbound" /\ txn' = "none"
    /\ column_mapping' = <<>> /\ loaded' = FALSE
    /\ existing_columns' = <<>> /\ unmapped_columns' = <<>>
    /\ i' = 0 /\ error' = "none" /\ raised' = "none" /\ reported' = <<>>
    /\ obs' = [NoObs EXCEPT !.schema0 = committed, !.prev_accent = obs.accent]
    /\ prior_success' = (prior_success \/ pc = "done")
    /\ UNCHANGED <<db_exists, json_file, committed>>
    /\ UNCHANGED <<yearsVars, dataVars>>

Next ==
    \/ CheckDb \/ load_json \/ Connect \/ Begin \/ Describe \/ AccentStep
    \/ MapStep \/ Commit \/ Close \/ Report \/ Except \/ Invoke

Spec == Init /\ [][Next]_vars

\* ------------------------------------------------------------------------
\* get_years
\* ------------------------------------------------------------------------
MaxLen   == 3      \* length of the free-form disease argument
MaxFiles == 2      \* files listed by the data source

\* Strings are sequences of one-character strings.
DENG == <<"D", "E", "N", "G">>
ZIKA == <<"Z", "I", "K", "A">>
CHIK == <<"C", "H", "I", "K">>

valid_diseases == (DENG :> "dengue") @@ (ZIKA :> "zika") @@ (CHIK :> "chikungunya")

ErrorMessage == "Error: Only DENG, ZIKA, and CHIK are allowed."

Alphabet == {"D", "E", "X"}

DiseaseArgs == DOMAIN valid_diseases \cup SeqsUpTo(Alphabet, MaxLen)

\* File names the data source may list.
FileNames == { <<"C", "H", "I", "K", "B", "R", "2", "2">>,
               <<"D", "E", "N", "G", "B", "R", "0", "7">>,
               <<"Z", "I", "K", "A", "B", "R", "2">>,
               <<"B", "R", "B", "R", "1", "5">> }

DigitSeq == <<"0", "1", "2", "3", "4", "5", "6", "7", "8", "9">>

IsDigit(ch) == \E k \in 1..Len(DigitSeq) : DigitSeq[k] = ch

DigitVal(ch) == (CHOOSE k \in 1..Len(DigitSeq) : DigitSeq[k] = ch) - 1

\* re.search(r"BR(\d{2})", file): positions where the pattern matches
MatchAt(file) ==
    {p \in 1..Len(file) :
        /\ p + 3 <= Len(file)
        /\ file[p] = "B" /\ file[p + 1] = "R"
        /\ IsDigit(file[p + 2]) /\ IsDigit(file[p + 3])}

\* int(match.group(1)) of the leftmost match
Group1(file) ==
    LET p == CHOOSE q \in MatchAt(file) : \A r \in MatchAt(file) : q <= r
    IN  DigitVal(file[p + 2]) * 10 + DigitVal(file[p + 3])

RECURSIVE Insert(_, _)
Insert(x, s) ==
    IF s = <<>> THEN <<x>>
    ELSE IF x <= Head(s) THEN <<x>> \o s
    ELSE <<Head(s)>> \o Insert(x, Tail(s))

RECURSIVE sorted(_)
sorted(s) == IF s = <<>> THEN <<>> ELSE Insert(Head(s), sorted(Tail(s)))

\* the generator: int(match.group(1)) + 2000 for each file that matches
RECURSIVE YearsOf(_)
YearsOf(fs) ==
    IF fs = <<>> THEN <<>>
    ELSE IF MatchAt(Head(fs)) # {}
           THEN <<Group1(Head(fs)) + 2000>> \o YearsOf(Tail(fs))
           ELSE YearsOf(Tail(fs))

\* any(disease_code not in valid_diseases for disease_code in disease):
\* iterating a string yields its characters, each a string of length one.
AnyInvalid(d) == \E k \in 1..Len(d) : <<d[k]>> \notin DOMAIN valid_diseases

NoResult == [kind |-> "none", text |-> "", names |-> <<>>, years |-> <<>>]

InitRenameIdle ==
    /\ pc = "idle" /\ db_exists = FALSE /\ json_file = <<>>
    /\ committed = <<>> /\ working = <<>>
    /\ Locals(<<>>)
    /\ prior_success = FALSE /\ calls = 0

InitYears ==
    /\ pcY = "start"
    /\ disease \in DiseaseArgs
    /\ files \in SeqsUpTo(FileNames, MaxFiles)
    /\ years = <<>>
    /\ resultY = NoResult

\* sinan = SINAN().load()
SinanLoad ==
    /\ pcY = "start"
    /\ \/ pcY' = "validate" /\ resultY' = resultY
       \/ pcY' = "raised" /\ resultY' = [NoResult EXCEPT !.kind = "raised"]
    /\ UNCHANGED <<disease, files, years>>
    /\ UNCHANGED <<renameVars, dataVars>>

\* if any(...): return "Error: ..."
Validate ==
    /\ pcY = "validate"
    /\ IF AnyInvalid(disease)
         THEN /\ resultY' = [NoResult EXCEPT !.kind = "error", !.text = ErrorMessage]
              /\ pcY' = "done"
         ELSE /\ resultY' = resultY
              /\ pcY' = "get_files"
    /\ UNCHANGED <<disease, files, years>>
    /\ UNCHANGED <<renameVars, dataVars>>

\* years = sorted(... for file in sinan.get_files(dis_code=[disease]) ...)
\* The data source either lists files or rejects the code it is asked for.
GetFiles ==
    /\ pcY = "get_files"
    /\ \/ /\ years' = sorted(YearsOf(files))
          /\ pcY' = "format"
          /\ resultY' = resultY
       \/ /\ pcY' = "raised"
          /\ resultY' = [NoResult EXCEPT !.kind = "raised"]
          /\ years' = years
    /\ UNCHANGED <<disease, files>>
    /\ UNCHANGED <<renameVars, dataVars>>

\* available_diseases = ', '.join(valid_diseases[c] for c in disease); return
Format ==
    /\ pcY = "format"
    /\ IF AnyInvalid(disease)
         THEN /\ resultY' = [NoResult EXCEPT !.kind = "raised"]
              /\ pcY' = "raised"
         ELSE /\ resultY' = [NoResult EXCEPT
                               !.kind = "years",
                               !.names = [k \in 1..Len(disease) |->
                                             valid_diseases[<<disease[k]>>]],
                               !.years = years]
              /\ pcY' = "done"
    /\ UNCHANGED <<disease, files, years>>
    /\ UNCHANGED <<renameVars, dataVars>>

InitY == InitRenameIdle /\ InitYears /\ InitDataIdle

NextYears == SinanLoad \/ Validate \/ GetFiles \/ Format

SpecYears == InitY /\ [][NextYears]_vars

\* ------------------------------------------------------------------------
\* get_data_from_table
\* ------------------------------------------------------------------------
MaxDataCols == 2   \* columns of the loaded table
MaxRows     == 3   \* rows of the loaded table

Cells == {"NaN", "v"}

\* What db_loader.load_data returns: ncols columns and a sequence of rows.
LoadedTables ==
    UNION {
        {[ncols |-> c, rows |-> r] :
            r \in SeqsUpTo([1..c -> Cells], IF c = 0 THEN 0 ELSE MaxRows)} :
        c \in 0..MaxDataCols }

\* A frame over the loaded table: the columns and the row labels it keeps.
Frame(t) == [cols |-> 1..t.ncols, idx |-> 1..Len(t.rows)]

EmptyFrame == [cols |-> {}, idx |-> {}]

\* data.dropna(axis=1, how="all"): drop the columns whose values are all null
DropNullColumns(t, d) ==
    [d EXCEPT !.cols = {c \in d.cols : \E r \in d.idx : t.rows[r][c] # "NaN"}]

\* Variant of DropNullRows that drops no row.
DropNullRowsNone(t, d) == d

\* data.dropna(): axis=0, how="any": drop the rows that hold a null
DropNullRows(t, d) ==
    [d EXCEPT !.idx = {r \in d.idx : \A c \in d.cols : t.rows[r][c] # "NaN"}]

\* data.empty: some axis has length zero
IsEmpty(d) == d.cols = {} \/ d.idx = {}

InitData ==
    /\ pcD = "start"
    /\ loaded_data \in LoadedTables
    /\ data = EmptyFrame
    /\ verbose \in BOOLEAN
    /\ logging_disabled = FALSE
    /\ resultD = <<>>

\* if not verbose: logging.disable(logging.CRITICAL)
Enter ==
    /\ pcD = "start"
    /\ logging_disabled' = ~verbose
    /\ pcD' = "load"
    /\ UNCHANGED <<loaded_data, data, verbose, resultD>>
    /\ UNCHANGED <<renameVars, yearsVars>>

\* extract, insert, rename, transform, load_data: the pipeline yields the
\* loaded table or raises.
Load ==
    /\ pcD = "load"
    /\ \/ /\ data' = Frame(loaded_data)
          /\ pcD' = "drop_columns"
          /\ resultD' = resultD
       \/ /\ resultD' = <<"raised">>
          /\ pcD' = "finally"
          /\ data' = data
    /\ UNCHANGED <<loaded_data, verbose, logging_disabled>>
    /\ UNCHANGED <<renameVars, yearsVars>>

\* data = data.dropna(axis=1, how="all")
\* if data.empty or data.shape[1] == 0: return pd.DataFrame()
DropColumns ==
    /\ pcD = "drop_columns"
    /\ LET d == DropNullColumns(loaded_data, data)
       IN  /\ data' = d
           /\ IF IsEmpty(d) \/ d.cols = {}
                THEN resultD' = <<"returned", EmptyFrame>> /\ pcD' = "finally"
                ELSE resultD' = resultD /\ pcD' = "drop_rows"
    /\ UNCHANGED <<loaded_data, verbose, logging_disabled>>
    /\ UNCHANGED <<renameVars, yearsVars>>

\* data = data.dropna()
\* if data.empty: return pd.DataFrame()
\* return data
DropRows ==
    /\ pcD = "drop_rows"
    /\ LET d == DropNullRows(loaded_data, data)
       IN  /\ data' = d
           /\ resultD' = IF IsEmpty(d) THEN <<"returned", EmptyFrame>>
                                       ELSE <<"returned", d>>
    /\ pcD' = "finally"
    /\ UNCHANGED <<loaded_data, verbose, logging_disabled>>
    /\ UNCHANGED <<renameVars, yearsVars>>

\* finally: if not verbose: logging.disable(logging.NOTSET)
Finally ==
    /\ pcD = "finally"
    /\ logging_disabled' = IF ~verbose THEN FALSE ELSE logging_disabled
    /\ pcD' = "done"
    /\ UNCHANGED <<loaded_data, data, verbose, resultD>>
    /\ UNCHANGED <<renameVars, yearsVars>>

InitD == InitRenameIdle /\ InitYearsIdle /\ InitData

NextData == Enter \/ Load \/ DropColumns \/ DropRows \/ Finally

SpecData == InitD /\ [][NextData]_vars

\* ========================================================================
\* Properties
\* ========================================================================
AccentFree(name) == Unidecode(name) = name

\* Mapping entries whose accent-stripped key is the accent-stripped name of
\* a column the table had when the invocation started.
Matching(m, schema) ==
    {e \in 1..Len(m) :
        \E k \in 1..Len(schema) : Unidecode(schema[k]) = Unidecode(m[e][1])}

\* C1: after rename_db_columns returns normally, every mapping entry whose
\* accent-stripped key equals the accent-stripped name of a column present
\* at the start has that very column carrying the entry's target name, for
\* every schema and every mapping.
C1_MatchedColumnsRenamed ==
    pc = "done" =>
        \A e \in 1..Len(json_file) : \A k \in 1..Len(obs.schema0) :
            Unidecode(json_file[e][1]) = Unidecode(obs.schema0[k])
                => committed[k] = json_file[e][2]

\* Two mapping entries match the same column when both match and their keys
\* have the same accent-stripped form.
NoSharedColumn(m, schema) ==
    \A e, f \in Matching(m, schema) :
        e # f => Unidecode(m[e][1]) # Unidecode(m[f][1])

\* C1 (amended): the same, for every schema and every mapping in which no
\* two entries match the same column.
C1_MatchedColumnsRenamedDistinctKeys ==
    (pc = "done" /\ NoSharedColumn(json_file, obs.schema0)) =>
        \A e \in 1..Len(json_file) : \A k \in 1..Len(obs.schema0) :
            Unidecode(json_file[e][1]) = Unidecode(obs.schema0[k])
                => committed[k] = json_file[e][2]

\* C1 witness: a normal return in which the target of one matching entry is
\* the key of another matching entry, after an accent was stripped.
C1_Witness ==
    /\ pc = "done"
    /\ NoSharedColumn(json_file, obs.schema0)
    /\ obs.accent >= 1
    /\ \E e, f \in Matching(json_file, obs.schema0) :
          e # f /\ json_file[e][2] = Unidecode(json_file[f][1])

\* C2: all-or-nothing: when a step inside the try block has failed and the
\* invocation has ended, the stored schema equals the schema at the start
\* and the exception leaving the function is the one that was caught.
C2_AllOrNothing ==
    (pc = "raised" /\ obs.failed_at # <<>>) =>
        /\ committed = obs.schema0
        /\ raised = error

\* C3: a mapping entry without a matching column never aborts the
\* invocation: a failure in the mapping loop is always at an entry that
\* matches a column, and on normal return every matching entry's rename is
\* committed and the reported unmapped names are exactly the keys whose
\* accent-stripped form matches no column of the table.
C3_UnmappedNeverAborts ==
    /\ (pc = "except" /\ obs.failed_at # <<>> /\ obs.failed_at[1] = "mapping")
          => obs.failed_at[2] \in Matching(json_file, obs.schema0)
    /\ pc = "done" =>
          /\ obs.mapped = Cardinality(Matching(json_file, obs.schema0))
          /\ committed = working
          /\ LET unmatched == {json_file[e][1] :
                                 e \in (1..Len(json_file)) \ Matching(json_file, obs.schema0)}
             IN  IF unmatched = {}
                   THEN reported = <<"info">>
                   ELSE /\ reported[1] = "warning"
                        /\ Range(reported[2]) = unmatched

\* C3 witness: a normal return that renamed a matching entry and reported
\* an unmapped one.
C3_Witness ==
    /\ pc = "done"
    /\ obs.mapped >= 1
    /\ reported # <<>> /\ reported[1] = "warning"
    /\ committed # obs.schema0

\* C4: when the database file does not exist the invocation fails with the
\* not-found error before the mapping is loaded, before a connection is
\* opened, before a transaction begins, and changes nothing.
C4_MissingDbFailsFirst ==
    ~db_exists =>
        /\ pc \in {"start", "raised"}
        /\ pc = "raised" => raised = "FileNotFoundError"
        /\ ~loaded
        /\ conn = "unbound" /\ obs.conns = 0
        /\ txn = "none" /\ obs.begins = 0
        /\ committed = obs.schema0 /\ working = committed

\* C4 witness: the invocation has failed on a missing database file.
C4_Witness == ~db_exists /\ pc = "raised" /\ json_file # <<>>

\* C9: an invocation that opened a connection opened exactly one, ran its
\* renames inside exactly one transaction, and has closed the connection
\* when it ends, by normal return or by raising.
C9_OneConnectionClosed ==
    (pc \in {"done", "raised"} /\ obs.conns >= 1) =>
        /\ obs.conns = 1
        /\ obs.begins <= 1 /\ obs.outside = 0
        /\ conn = "closed"

\* C10 (as claimed): once an invocation has returned normally, a later
\* invocation performs no accent-stripping rename.
C10_SecondRunNoAccentRename == prior_success => obs.accent = 0

\* C10 (amended): once an invocation has returned normally, a later
\* invocation performs no accent-stripping rename, provided every target
\* name of the mapping is free of accents.
C10_SecondRunNoAccentRenameAsciiTargets ==
    (prior_success /\ \A e \in 1..Len(json_file) : AccentFree(json_file[e][2]))
        => obs.accent = 0

\* C10 witness: a second invocation has passed its accent stage after a
\* first one that stripped accents and returned normally.
C10_Witness ==
    /\ prior_success
    /\ obs.prev_accent >= 1
    /\ pc = "done"
    /\ json_file # <<>>
    /\ \A e \in 1..Len(json_file) : AccentFree(json_file[e][2])

\* C5: for each valid code, get_years returns the listing of the years
\* (2000 plus the two-digit fragment after "BR", ascending), not the error.
C5_ValidCodeListsYears ==
    (pcY = "done" /\ disease \in {DENG, ZIKA, CHIK}) =>
        /\ resultY.kind = "years"
        /\ resultY.years = sorted(YearsOf(files))

\* C6: for every argument that is not DENG, ZIKA or CHIK (the empty string
\* included), get_years returns the fixed error message.
C6_InvalidCodeGivesError ==
    (pcY = "done" /\ disease \notin {DENG, ZIKA, CHIK}) =>
        /\ resultY.kind = "error"
        /\ resultY.text = ErrorMessage

\* C7: the returned table holds no column that is null in all loaded rows
\* and no row that is null in every column it keeps.
C7_NoNullColumnNoNullRow ==
    (pcD = "done" /\ resultD[1] = "returned") =>
        LET t == loaded_data
            f == resultD[2]
        IN  /\ \A c \in f.cols : \E r \in 1..Len(t.rows) : t.rows[r][c] # "NaN"
            /\ \A r \in f.idx : \E c \in f.cols : t.rows[r][c] # "NaN"

\* C7 witness: a non-empty table is returned from a load that had a column
\* null in all rows and a row null in every column.
C7_Witness ==
    /\ pcD = "done" /\ resultD[1] = "returned"
    /\ resultD[2].idx # {}
    /\ \E c \in 1..loaded_data.ncols :
          \A r \in 1..Len(loaded_data.rows) : loaded_data.rows[r][c] = "NaN"
    /\ \E r \in 1..Len(loaded_data.rows) :
          \A c \in 1..loaded_data.ncols : loaded_data.rows[r][c] = "NaN"

\* C8: every loaded row with a non-null value among the columns that
\* survive column pruning is present in the returned table.
C8_OnlyFullyNullRowsDropped ==
    (pcD = "done" /\ resultD[1] = "returned") =>
        LET t == loaded_data
            kept == {c \in 1..t.ncols : \E r \in 1..Len(t.rows) : t.rows[r][c] # "NaN"}
        IN  \A r \in 1..Len(t.rows) :
                (\E c \in kept : t.rows[r][c] # "NaN") => r \in resultD[2].idx

====
